---- MODULE Spec2Model ----
(***************************************************************************)
(* Thumbnail generation pipeline of the teletext archive server.           *)
(*                                                                         *)
(* One archive folder is modelled.  A file name is a sequence of tokens:   *)
(* single characters plus the extension tokens ".html", ".png", ".txt".    *)
(* Three entry points drive generateThumbnail-style work over the folder:  *)
(*   - background: GET /folder/* starts generateThumbnailsForFolder as a   *)
(*     detached task (several overlapping requests are possible);          *)
(*   - stream:     GET /regenerate-thumbnails-stream/*  (sequential loop); *)
(*   - fast:       POST /manager/regenerate-thumbnails-fast/* (one browser,*)
(*     a pool of MAX_CONCURRENT_PAGES workers sharing an index counter).   *)
(* An action is the code that runs between two awaits: JavaScript runs it  *)
(* without interleaving, so it is one atomic step here.                    *)
(***************************************************************************)
EXTENDS Integers, Sequences, FiniteSets, Bags, TLC

\* ---------------------------------------------------------------------
\* Bounds of the model
\* ---------------------------------------------------------------------
\* Largest number of directory entries when one folder-view request is made.
MaxSoloItems == 4
\* Largest number of directory entries of the folder in stream mode.
MaxStreamItems == 4
\* Largest number of directory entries of the folder in fast mode.
MaxFastItems == 6
\* Largest number of operations that fail (launch, render, write, readdir, ...).
MaxFaults == 1
\* Failures are explored on the folders with at most this many pages.
MaxFaultyPages == 2
\* Largest number of times a PNG file is written while the image cache is followed.
MaxWrites == 3
\* Longest request path that is enumerated, in characters.
MaxPathLen == 3
\* Largest number of entries of a folder whose page view is followed.
MaxViewFiles == 3
\* Longest subfolder name whose year bucket is computed, in characters.
MaxFolderNameLen == 4

\* ---------------------------------------------------------------------
\* Program constants
\* ---------------------------------------------------------------------
MAX_CONCURRENT == 3
MAX_CONCURRENT_PAGES == 5
\* completed % 5 === 0
PROGRESS_EVERY == 5
\* page < 100 || page > 999
PAGE_MIN == 100
PAGE_MAX == 999

\* The overlapping folder-view requests that each start a background run.
BgRuns == {"reqA", "reqB"}
\* The regeneration request of stream mode, as a caller of generateThumbnail.
StreamRun == "stream"
AllRuns == BgRuns \cup {StreamRun}

\* ---------------------------------------------------------------------
\* Strings: parseInt, template literals, String.prototype.replace
\* ---------------------------------------------------------------------
Digits == <<"0", "1", "2", "3", "4", "5", "6", "7", "8", "9">>

IsDigit(c) == \E d \in 1..10 : Digits[d] = c

DigitVal(c) == (CHOOSE d \in 1..10 : Digits[d] = c) - 1

IsSpace(c) == c = " "

RECURSIVE SkipSpace(_)
SkipSpace(s) ==
    IF s # <<>> /\ IsSpace(Head(s)) THEN SkipSpace(Tail(s)) ELSE s

RECURSIVE DigitPrefix(_)
DigitPrefix(s) ==
    IF s = <<>> \/ ~IsDigit(Head(s)) THEN <<>>
    ELSE <<Head(s)>> \o DigitPrefix(Tail(s))

RECURSIVE DecValue(_, _)
DecValue(s, acc) ==
    IF s = <<>> THEN acc ELSE DecValue(Tail(s), 10 * acc + DigitVal(Head(s)))

\* parseInt(s, 10): leading white space is skipped, one sign is accepted, the
\* longest prefix of decimal digits is converted, the rest is ignored.
ParseSigned(s) ==
    LET t == SkipSpace(s) IN
    IF t # <<>> /\ Head(t) \in {"+", "-"}
    THEN [neg |-> Head(t) = "-", digits |-> DigitPrefix(Tail(t))]
    ELSE [neg |-> FALSE, digits |-> DigitPrefix(t)]

\* isNaN(parseInt(s, 10))
ParseIntIsNaN(s) == ParseSigned(s).digits = <<>>

\* parseInt(s, 10) when it is a number
ParseInt(s) ==
    LET p == ParseSigned(s) IN
    IF p.neg THEN 0 - DecValue(p.digits, 0) ELSE DecValue(p.digits, 0)

\* `${n}` for an integer n >= 0
RECURSIVE NumToStr(_)
NumToStr(n) ==
    IF n < 10 THEN <<Digits[n + 1]>>
    ELSE NumToStr(n \div 10) \o <<Digits[(n % 10) + 1]>>

\* f.endsWith('.html')
EndsWithHtml(f) == f # <<>> /\ f[Len(f)] = ".html"

\* file.replace('.html', ''): the FIRST occurrence is removed
RECURSIVE RemoveFirstHtml(_)
RemoveFirstHtml(f) ==
    IF f = <<>> THEN <<>>
    ELSE IF Head(f) = ".html" THEN Tail(f)
    ELSE <<Head(f)>> \o RemoveFirstHtml(Tail(f))

\* pageStr
PageStr(f) == RemoveFirstHtml(f)

\* !(isNaN(page) || page < 100 || page > 999)
IsPageFile(f) ==
    /\ ~ParseIntIsNaN(PageStr(f))
    /\ ParseInt(PageStr(f)) >= PAGE_MIN
    /\ ParseInt(PageStr(f)) <= PAGE_MAX

\* pngPath of the generators: path.join(fullPath, `${page}.png`), as the stem
GenKey(f) == NumToStr(ParseInt(PageStr(f)))

\* pngPath of the folder listing: path.join(fullPath, `${pageStr}.png`)
ListKey(f) == PageStr(f)

\* Math.round((c / t) * 100) for c >= 0, t > 0
Progress(c, t) == (200 * c + t) \div (2 * t)

\* ---------------------------------------------------------------------
\* Folder contents the runs are checked on
\* ---------------------------------------------------------------------
Html(stem) == stem \o <<".html">>

\* 100.html, 101.html, 102.html, ... : every entry is a page
PlainEntry(i) == Html(NumToStr(PAGE_MIN + i - 1))

\* A folder with pages, files that are no pages, and year-suffixed pages
MixedEntries ==
    << Html(<<"1", "0", "0">>),
       Html(<<"a", "b", "c">>),
       Html(<<"1", "0", "1", "_", "0", "5">>),
       <<"r", ".txt">>,
       Html(<<"0", "9", "9">>),
       Html(<<"1", "0", "0", "0">>),
       Html(<<"0", "1", "0", "0">>),
       Html(<<"1", "0", "2">>),
       Html(<<"1", "0", "3">>) >>

\* A folder with few pages among files that are no pages
TailEntries ==
    << Html(<<"1", "0", "0">>),
       Html(<<"x">>),
       Html(<<"y">>),
       Html(<<"1", "0", "1">>),
       Html(<<"z">>),
       Html(<<"1", "0", "2">>),
       Html(<<"w">>),
       Html(<<"v">>),
       Html(<<"u">>) >>

\* The folders on which two overlapping folder-view requests are checked
PairFolders ==
    { <<>>,
      <<Html(<<"1", "0", "0">>)>>,
      <<Html(<<"1", "0", "0">>), Html(<<"a", "b", "c">>)>>,
      <<Html(<<"1", "0", "0">>), Html(<<"0", "1", "0", "0">>)>> }

Folders(n) ==
    { [i \in 1..n |-> PlainEntry(i)] }
    \cup (IF n <= Len(MixedEntries) THEN {SubSeq(MixedEntries, 1, n)} ELSE {})
    \cup (IF n <= Len(TailEntries) THEN {SubSeq(TailEntries, 1, n)} ELSE {})

\* ---------------------------------------------------------------------
\* State
\* ---------------------------------------------------------------------
VARIABLES
    mode,           \* which entry point is exercised: "background", "stream", "fast"
    requests,       \* the folder-view requests that are made (background mode)
    faults,         \* number of operations that have failed so far
    items,          \* fs.readdir(fullPath): the entries of the folder
    scan,           \* what a handler computes from items: htmlFiles, and per
                    \*   file the page test and the PNG paths (no operation
                    \*   modelled changes the .html entries of the folder)
    png,            \* the PNG files of the folder: stem -> "absent", "old", "partial",
                    \*   "thumb", "mixed" (bytes of two writers)
    bgpc,           \* background run -> "idle", "readdir", "running", "done",
                    \*   "folderError"
    bgi,            \* background run -> first index of the chunk in progress (i + 1)
    existedAtStart, \* background run -> PNG stems present when the run was started
    folderReplied,  \* the folder-view requests whose response was sent
    tphase,         \* run -> index of htmlFiles -> position of the task
    terr,           \* run -> index -> the error generateThumbnail is about to throw
    tresult,        \* run -> index -> how the task ended
    spc,            \* stream request: "idle", "readdir", "loop", "done", "raised"
    fpc,            \* fast request: "idle", "readdir", "launch", "workers", "abort",
                    \*   "closeBrowser", "done", "raised"
    browserUp,      \* fast request: the shared browser is running
    currentIndex,   \* fast request: let currentIndex
    completed,      \* fast request: let completed
    nNew,           \* fast request: workers awaiting browser.newPage()
    rendering,      \* fast request: indices awaiting goto / screenshot / sharp
    wopen,          \* fast request: indices awaiting writeFile, file not opened yet
    wdata,          \* fast request: indices awaiting writeFile, file truncated
    nClosing,       \* fast request: workers awaiting page.close()
    nSettled,       \* fast request: workers whose promise has settled
    errors,         \* const errors = [], as a bag: no handler reads the order
    generated,      \* const generated = [], as a bag
    res,            \* what was written to the response, in order
    resEnded,       \* res.end() / res.json() was called
    clientClosedAt, \* the client closed the connection when res held this many
                    \*   entries; -1 while the client is connected
    variant,        \* earlier generateThumbnail: which source file's version runs
    vphase,         \* earlier generateThumbnail: call -> position in the function
    vbrowser,       \* call -> "none", "live", "closed": the browser it launched
    vfile,          \* call -> the file at pngPath: "absent", "old", "partial",
                    \*   "raw" (full-page screenshot), "thumb" (250x250)
    verr,           \* call -> the error held while the finally block runs
    vresult,        \* call -> "none", "returned", or the error thrown
    imageCache,     \* const imageCache = new Map(): path -> version cached (0: no entry)
    disk,           \* path -> version of the PNG file on disk (0: no file)
    nWrites,        \* number of times a PNG was written so far
    reqPath,        \* path validation: req.params[0] / req.url, as code points
    reqName,        \* path validation: req.body.name, as code points
    handler,        \* path validation: the handler that ran, "none" before
    valid,          \* isValidPath(reqPath): "accepted", "rejected"; "none" if not called
    fsCalls,        \* the filesystem calls the handler made, in order
    status,         \* the status of the handler's response (0: none)
    viewFiles,      \* page view: fs.readdir(fullPath), as a set of names
    viewPage,       \* page view: parseInt(req.params.page, 10)
    viewReply,      \* page view: status, pageNumbers, prevPage, nextPage
                    \*   (0 for null); status 0 before the response
    rnRoute,        \* rename: the handler that runs the retry loop, "none" before
    rnPc,           \* rename: "idle", "rename" (fs.rename awaited), "sleep"
                    \*   (the delay before the next attempt), "replied"
    rnI,            \* rename: let i of the for loop
    rnErrs,         \* rename: the error codes of the attempts that failed
    rnRenamed,      \* rename: the source now has its new name
    rnStatus,       \* rename: the status of the response (0: none)
    rnLocked,       \* rename: another process holds the source open, which
                    \*   makes fs.rename fail with EPERM
    yrFolder,       \* year bucket: the name of a subfolder
    yrYear,         \* year bucket: let year, -1 before it is computed
    lastReply       \* the reply of the latest GET /teletext/...png

variantVars == <<variant, vphase, vbrowser, vfile, verr, vresult>>
\* The state of the components that are checked on their own
cacheVars == <<imageCache, disk, nWrites, lastReply>>
pathVars == <<reqPath, reqName, handler, valid, fsCalls, status>>
viewVars == <<viewFiles, viewPage, viewReply>>
renameVars == <<rnRoute, rnPc, rnI, rnErrs, rnRenamed, rnStatus, rnLocked>>
yearVars == <<yrFolder, yrYear>>
requestVars == <<viewVars, renameVars, yearVars>>
sideVars == <<variantVars, cacheVars, pathVars, requestVars>>

bgVars == <<bgpc, bgi, existedAtStart, folderReplied>>
taskVars == <<tphase, terr, tresult>>
fastVars == <<fpc, browserUp, currentIndex, completed, nNew, rendering, wopen,
              wdata, nClosing, nSettled>>
respVars == <<errors, generated, res, resEnded>>
vars == <<mode, requests, faults, items, scan, clientClosedAt, sideVars, png, bgVars, taskVars, spc, fastVars, respVars>>

\* Every PNG stem a generator or the listing can name in a folder
PngKeysOf(its) ==
    LET h == SelectSeq(its, EndsWithHtml)
        p == {i \in 1..Len(h) : IsPageFile(h[i])}
    IN {GenKey(h[i]) : i \in p} \cup {ListKey(h[i]) : i \in p}

\* What the handlers compute from the directory entries its:
\* htmlFiles, the indices that pass the page test, pngPath of the generators,
\* pngPath of the folder listing, and every PNG path named
ScanFolder(its) ==
    LET h == SelectSeq(its, EndsWithHtml) IN
    [html |-> h,
     pages |-> {i \in 1..Len(h) : IsPageFile(h[i])},
     gen |-> [i \in 1..Len(h) |-> IF IsPageFile(h[i]) THEN GenKey(h[i]) ELSE <<>>],
     list |-> [i \in 1..Len(h) |-> ListKey(h[i])],
     keys |-> PngKeysOf(its)]

\* const htmlFiles = items.filter(f => f.endsWith('.html'))
HtmlFiles == scan.html

\* const totalFiles = htmlFiles.length
TotalFiles == Len(HtmlFiles)

Idx == 1..TotalFiles

\* The indices of htmlFiles that pass the page-number test
PageIdx == scan.pages

IsPage(i) == i \in PageIdx

\* pngPath of the task of htmlFiles[i]
TaskKey(i) == scan.gen[i]

\* pngPath the folder listing checks for htmlFiles[i]
ListKeyAt(i) == scan.list[i]

\* fs.access(pngPath).then(() => true).catch(() => false)
PngExists(k) == png[k] # "absent"

\* hasThumb of the folder listing for htmlFiles[i]
HasThumb(i) == PngExists(ListKeyAt(i))

\* Failure causes of a generation task
RenderErrors == {"timeout", "crash"}
ErrorKinds == {"launch", "persist"} \cup RenderErrors

\* The error an awaited operation rejects with: puppeteer rejects a navigation
\* that exceeds its deadline with a TimeoutError, everything else with an Error
RejectionOf(cause) ==
    [class |-> IF cause = "timeout" THEN "TimeoutError" ELSE "Error",
     message |-> IF cause = "timeout"
                 THEN <<"Navigation timeout of ", "15000", " ms exceeded">>
                 ELSE <<cause>>]

\* catch (err) { throw new AppError(`... ${err.message}`, 500); }
AppErrorOf(err) ==
    [class |-> "AppError", statusCode |-> 500, isOperational |-> TRUE,
     message |-> <<"generation error: ">> \o err.message]

\* What generateThumbnail throws when an operation fails for `cause`
Thrown(cause) == AppErrorOf(RejectionOf(cause))

\* errors.push(`${file}: ${err.message}`)
ErrorEntry(file, err) == file \o <<": ">> \o err.message

\* A browser launched by generateThumbnail is live from the moment
\* puppeteer.launch resolves until browser.close resolves.
BrowserPhases == {"render", "write", "writing", "close"}

LiveBrowsers(r) == Cardinality({i \in Idx : tphase[r][i] \in BrowserPhases})

\* The requests made and the size of the folder they are made on
Scenarios ==
    {[mode |-> "background", requests |-> {"reqA"}, folders |-> Folders(n)] :
        n \in 0..MaxSoloItems}
    \cup {[mode |-> "background", requests |-> BgRuns, folders |-> PairFolders]}
    \cup {[mode |-> "stream", requests |-> {}, folders |-> Folders(n)] :
            n \in 0..MaxStreamItems}
    \cup {[mode |-> "fast", requests |-> {}, folders |-> Folders(n)] :
            n \in 0..MaxFastItems}

\* The PNG files present before the first request: none, all, only the one
\* of the first key, or all but that one
OldSets(keys) ==
    IF keys = {} THEN {{}}
    ELSE LET first == CHOOSE k \in keys : TRUE
         IN {{}, keys, {first}, keys \ {first}}

\* The calls of an earlier generateThumbnail that are followed
Calls == {"callA", "callB"}

\* No earlier generateThumbnail is running
VariantsIdle ==
    /\ variant = "none"
    /\ vphase = [c \in Calls |-> "idle"]
    /\ vbrowser = [c \in Calls |-> "none"]
    /\ vfile = [c \in Calls |-> "absent"]
    /\ verr = [c \in Calls |-> "none"]
    /\ vresult = [c \in Calls |-> "none"]

\* The PNG paths that are requested
Paths == {"100.png", "101.png"}

\* No PNG is on disk and none was requested
CacheIdle ==
    /\ imageCache = [p \in Paths |-> 0]
    /\ disk = [p \in Paths |-> 0]
    /\ nWrites = 0
    /\ lastReply = [status |-> 0, path |-> "", bytes |-> 0, onDisk |-> 0]

\* No request whose path is followed was made
PathIdle ==
    /\ reqPath = <<>>
    /\ reqName = <<>>
    /\ handler = "none"
    /\ valid = "none"
    /\ fsCalls = <<>>
    /\ status = 0

\* No page view was requested
ViewIdle ==
    /\ viewFiles = {}
    /\ viewPage = 0
    /\ viewReply = [status |-> 0, pageNumbers |-> <<>>, prevPage |-> 0, nextPage |-> 0]

\* No rename was requested
RenameIdle ==
    /\ rnRoute = "none"
    /\ rnPc = "idle"
    /\ rnI = 0
    /\ rnErrs = <<>>
    /\ rnRenamed = FALSE
    /\ rnStatus = 0
    /\ rnLocked = FALSE

\* No subfolder is grouped
YearIdle == yrFolder = <<>> /\ yrYear = -1

RequestsIdle == ViewIdle /\ RenameIdle /\ YearIdle

SideIdle == VariantsIdle /\ CacheIdle /\ PathIdle /\ RequestsIdle

\* The pipeline before the first request of one of the scenarios scs
StartOn(scs) ==
    /\ \E sc \in scs :
          /\ mode = sc.mode
          /\ requests = sc.requests
          /\ items \in sc.folders
    /\ scan = ScanFolder(items)
    /\ faults = 0
    /\ \E old \in OldSets({TaskKey(i) : i \in PageIdx}) :
          png = [k \in scan.keys |-> IF k \in old THEN "old" ELSE "absent"]
    /\ bgpc = [r \in BgRuns |-> "idle"]
    /\ bgi = [r \in BgRuns |-> 1]
    /\ existedAtStart = [r \in BgRuns |-> {}]
    /\ folderReplied = {}
    /\ tphase = [r \in AllRuns |-> [i \in Idx |-> "idle"]]
    /\ terr = [r \in AllRuns |-> [i \in Idx |-> "none"]]
    /\ tresult = [r \in AllRuns |-> [i \in Idx |-> "none"]]
    /\ spc = "idle"
    /\ fpc = "idle"
    /\ browserUp = FALSE
    /\ currentIndex = 0
    /\ completed = 0
    /\ nNew = 0
    /\ rendering = {}
    /\ wopen = {}
    /\ wdata = {}
    /\ nClosing = 0
    /\ nSettled = 0
    /\ errors = EmptyBag
    /\ generated = EmptyBag
    /\ res = <<>>
    /\ resEnded = FALSE
    /\ clientClosedAt = -1

Init == StartOn(Scenarios) /\ SideIdle

\* No request is made on the pipeline
PipelineIdle == StartOn({[mode |-> "none", requests |-> {}, folders |-> {<<>>}]})

outsideVariants == <<mode, requests, faults, items, scan, clientClosedAt, png, bgVars,
                     taskVars, spc, fastVars, respVars, cacheVars, pathVars, requestVars>>

outsideCache == <<mode, requests, faults, items, scan, clientClosedAt, png, bgVars,
                  taskVars, spc, fastVars, respVars, variantVars, pathVars, requestVars>>

pipelineVars == <<mode, requests, faults, items, scan, clientClosedAt, png, bgVars,
                  taskVars, spc, fastVars, respVars>>

\* ---------------------------------------------------------------------
\* generateThumbnailsForFolder: the chunk loop
\* ---------------------------------------------------------------------
\* Variant: tasks.slice(i), the end of the slice forgotten
ChunkOfNoEnd(lo) == {j \in Idx : lo <= j}

\* tasks.slice(i, i + MAX_CONCURRENT), as indices of htmlFiles
ChunkOf(lo) == {j \in Idx : lo <= j /\ j < lo + MAX_CONCURRENT}

\* The values i + 1 of the for loop from lo on: lo, lo + MAX_CONCURRENT, ...
ChunkStarts(lo) ==
    {s \in lo..TotalFiles : (s - lo) % MAX_CONCURRENT = 0}

\* for (let i = ...; i < tasks.length; i += MAX_CONCURRENT) await Promise.all(...)
\* from chunk lo on, up to the next chunk that has to wait for a task:
\* chunk.map(task => task()) runs every task of a chunk up to its first await
\* (fs.access), a file that is no page returns at once, and Promise.all over
\* a chunk without a page resolves at once.
BgAdvance(ph, rs, lo) ==
    LET waiting == {s \in ChunkStarts(lo) : \E j \in ChunkOf(s) : IsPage(j)}
        stop == IF waiting = {} THEN TotalFiles + 1
                ELSE CHOOSE s \in waiting : \A t \in waiting : s <= t
        started == UNION {ChunkOf(s) : s \in {t \in ChunkStarts(lo) : t <= stop}}
        exit == IF ChunkStarts(lo) = {} THEN lo
                ELSE MAX_CONCURRENT +
                     (CHOOSE s \in ChunkStarts(lo) : \A t \in ChunkStarts(lo) : t <= s)
    IN [ph |-> [j \in Idx |->
                   IF j \in started THEN (IF IsPage(j) THEN "access" ELSE "done")
                   ELSE ph[j]],
        rs |-> [j \in Idx |->
                   IF j \in started /\ ~IsPage(j) THEN "invalid" ELSE rs[j]],
        lo |-> IF waiting = {} THEN exit ELSE stop,
        pc |-> IF waiting = {} THEN "done" ELSE "running"]

\* A task of a background run ends with `result`; Promise.all resolves when
\* it was the last one of its chunk, and the loop goes on.
BgTaskDone(r, i, result) ==
    LET ph1 == [tphase[r] EXCEPT ![i] = "done"]
        rs1 == [tresult[r] EXCEPT ![i] = result]
        adv == IF \A j \in ChunkOf(bgi[r]) : ph1[j] = "done"
               THEN BgAdvance(ph1, rs1, bgi[r] + MAX_CONCURRENT)
               ELSE [ph |-> ph1, rs |-> rs1, lo |-> bgi[r], pc |-> "running"]
    IN /\ tphase' = [tphase EXCEPT ![r] = adv.ph]
       /\ tresult' = [tresult EXCEPT ![r] = adv.rs]
       /\ bgi' = [bgi EXCEPT ![r] = adv.lo]
       /\ bgpc' = [bgpc EXCEPT ![r] = adv.pc]
       /\ UNCHANGED <<existedAtStart, folderReplied, spc, respVars>>

\* An awaited operation resolves / rejects (failures are bounded by MaxFaults)
NoFault == UNCHANGED faults

FaultBudget == IF Cardinality(PageIdx) <= MaxFaultyPages THEN MaxFaults ELSE 0

Fault == faults < FaultBudget /\ faults' = faults + 1

\* GET /folder/*: generateThumbnailsForFolder(fullPath) is called and not
\* awaited; it runs up to `await fs.readdir`.
BgStart(r) ==
    /\ mode = "background"
    /\ r \in requests
    /\ bgpc[r] = "idle"
    /\ bgpc' = [bgpc EXCEPT ![r] = "readdir"]
    /\ existedAtStart' = [existedAtStart EXCEPT ![r] = {k \in DOMAIN png : PngExists(k)}]
    /\ NoFault
    /\ UNCHANGED <<mode, requests, items, scan, clientClosedAt, sideVars, png, bgi, folderReplied, taskVars, spc,
                   fastVars, respVars>>

\* readdir resolves: the tasks are built and the first chunk is started.
BgReaddirOk(r) ==
    /\ bgpc[r] = "readdir"
    /\ LET adv == BgAdvance(tphase[r], tresult[r], 1)
       IN /\ tphase' = [tphase EXCEPT ![r] = adv.ph]
          /\ tresult' = [tresult EXCEPT ![r] = adv.rs]
          /\ bgi' = [bgi EXCEPT ![r] = adv.lo]
          /\ bgpc' = [bgpc EXCEPT ![r] = adv.pc]
    /\ NoFault
    /\ UNCHANGED <<mode, requests, items, scan, clientClosedAt, sideVars, png, existedAtStart, folderReplied, terr,
                   spc, fastVars, respVars>>

\* Variant: the rejection is caught neither in the function nor at the call
BgReaddirFailUncaught(r) ==
    /\ bgpc[r] = "readdir"
    /\ bgpc' = [bgpc EXCEPT ![r] = "unhandledRejection"]
    /\ Fault
    /\ UNCHANGED <<mode, requests, items, scan, clientClosedAt, sideVars, png, bgi,
                   existedAtStart, folderReplied, taskVars, spc, fastVars, respVars>>

\* readdir rejects: catch (err) logs THUMBNAIL_FOLDER_ERROR, nothing is thrown.
BgReaddirFail(r) ==
    /\ bgpc[r] = "readdir"
    /\ bgpc' = [bgpc EXCEPT ![r] = "folderError"]
    /\ Fault
    /\ UNCHANGED <<mode, requests, items, scan, clientClosedAt, sideVars, png, bgi, existedAtStart, folderReplied,
                   taskVars, spc, fastVars, respVars>>

\* ---------------------------------------------------------------------
\* GET /regenerate-thumbnails-stream/*: the sequential loop
\* ---------------------------------------------------------------------
ProgressEvent(cur, total, gen) ==
    [type |-> "progress", progress |-> Progress(cur, total), current |-> cur,
     total |-> total, generated |-> gen]

\* Variant: a batch with a failed task reports success: false
FinalEventFailing(errs, gen) ==
    [type |-> "final", success |-> errs = EmptyBag, errors |-> errs, generated |-> gen]

\* finalData; errors is left out of the message when it is empty
FinalEvent(errs, gen) ==
    [type |-> "final", success |-> TRUE, errors |-> errs, generated |-> gen]

\* res.json({ success: true, message: ... }) when there is no html file
NoFilesReply == [type |-> "json", success |-> TRUE]

\* res.writeHead(200, { 'Content-Type': 'text/plain', ... }): streaming starts
HeadReply == [type |-> "head", status |-> 200]

\* Variant: the regeneration loops skip a page whose PNG exists
RegenWorkSetMissing == {i \in PageIdx : ~PngExists(TaskKey(i))}

\* The regeneration endpoints make a task of every page, whether or not its
\* PNG exists: there is no fs.access check in their loops.
RegenWorkSet == PageIdx

\* The for loop from index `from` on, up to the next await or to res.end():
\* a file that is no page is skipped by `continue`.
StreamContinue(from, ph, rs, gen, errs, out) ==
    LET nxt == {j \in RegenWorkSet : j >= from}
        stop == IF nxt = {} THEN TotalFiles + 1
                ELSE CHOOSE j \in nxt : \A k \in nxt : j <= k
        rs2 == [j \in Idx |-> IF j >= from /\ j < stop THEN "invalid" ELSE rs[j]]
        ph2 == [j \in Idx |-> IF j >= from /\ j < stop THEN "done"
                              ELSE IF j = stop THEN "launch" ELSE ph[j]]
    IN /\ tphase' = [tphase EXCEPT ![StreamRun] = ph2]
       /\ tresult' = [tresult EXCEPT ![StreamRun] = rs2]
       /\ generated' = gen
       /\ errors' = errs
       /\ IF nxt = {}
          THEN /\ res' = Append(out, FinalEvent(errs, gen))
               /\ resEnded' = TRUE
               /\ spc' = "done"
          ELSE /\ res' = out
               /\ resEnded' = FALSE
               /\ spc' = "loop"

\* Variant: no try / catch around generateThumbnail, a failure leaves the loop
StreamTaskDoneNoCatch(i, e) ==
    LET ph1 == [tphase[StreamRun] EXCEPT ![i] = "done"]
        rs1 == [tresult[StreamRun] EXCEPT ![i] = IF e = "none" THEN "generated" ELSE e]
    IN /\ IF e = "none"
          THEN StreamContinue(i + 1, ph1, rs1, generated (+) SetToBag({TaskKey(i)}),
                              errors,
                              Append(res, ProgressEvent(i, TotalFiles, <<TaskKey(i)>>)))
          ELSE /\ tphase' = [tphase EXCEPT ![StreamRun] = ph1]
               /\ tresult' = [tresult EXCEPT ![StreamRun] = rs1]
               /\ spc' = "raised"
               /\ UNCHANGED respVars
       /\ UNCHANGED bgVars

\* await generateThumbnail(...) of iteration i settles with error e ("none":
\* it resolved): the try block goes on, or the catch block runs.
StreamTaskDone(i, e) ==
    LET f == HtmlFiles[i]
        ok == e = "none"
        ph1 == [tphase[StreamRun] EXCEPT ![i] = "done"]
        rs1 == [tresult[StreamRun] EXCEPT ![i] = IF ok THEN "generated" ELSE e]
        gen1 == IF ok THEN generated (+) SetToBag({TaskKey(i)}) ELSE generated
        err1 == IF ok THEN errors ELSE errors (+) SetToBag({<<f, e>>})
        out1 == IF ok THEN Append(res, ProgressEvent(i, TotalFiles, <<TaskKey(i)>>))
                ELSE res
    IN /\ StreamContinue(i + 1, ph1, rs1, gen1, err1, out1)
       /\ UNCHANGED bgVars

\* The request arrives: the handler runs up to `await fs.stat` / readdir.
StreamStart ==
    /\ mode = "stream"
    /\ spc = "idle"
    /\ spc' = "readdir"
    /\ NoFault
    /\ UNCHANGED <<mode, requests, items, scan, clientClosedAt, sideVars, png, bgVars, taskVars, fastVars, respVars>>

\* readdir resolves.
StreamReaddirOk ==
    /\ spc = "readdir"
    /\ IF TotalFiles = 0
       THEN /\ res' = <<NoFilesReply>>
            /\ resEnded' = TRUE
            /\ spc' = "done"
            /\ UNCHANGED <<taskVars, errors, generated>>
       ELSE /\ StreamContinue(1, tphase[StreamRun], tresult[StreamRun], EmptyBag, EmptyBag,
                               <<HeadReply>>)
            /\ UNCHANGED terr
    /\ NoFault
    /\ UNCHANGED <<mode, requests, items, scan, clientClosedAt, sideVars, png, bgVars, fastVars>>

\* stat or readdir rejects: asyncHandler passes the error to errorHandler.
StreamReaddirFail ==
    /\ spc = "readdir"
    /\ spc' = "raised"
    /\ Fault
    /\ UNCHANGED <<mode, requests, items, scan, clientClosedAt, sideVars, png, bgVars, taskVars, fastVars, respVars>>

\* ---------------------------------------------------------------------
\* generateThumbnail(htmlPath, pngPath), called by run r for htmlFiles[i]
\* ---------------------------------------------------------------------
\* The promise of generateThumbnail settles; control returns to the caller.
Settle(r, i, e) ==
    IF r \in BgRuns
    THEN BgTaskDone(r, i, IF e = "none" THEN "generated" ELSE e)
    ELSE StreamTaskDone(i, e)

\* Variant: the task checks the path the folder listing checks
NeedsGenerationByListKey(i) == ~PngExists(ListKeyAt(i))

\* if (!pngExists): the task goes on to generateThumbnail
NeedsGeneration(i) == ~PngExists(TaskKey(i))

\* Background task: `await fs.access(pngPath)` resolves with pngExists.
TaskAccess(r, i) ==
    /\ r \in BgRuns
    /\ tphase[r][i] = "access"
    /\ IF NeedsGeneration(i)
       THEN /\ tphase' = [tphase EXCEPT ![r][i] = "launch"]
            /\ UNCHANGED <<tresult, bgVars, spc, respVars>>
       ELSE BgTaskDone(r, i, "skipped")
    /\ NoFault
    /\ UNCHANGED <<mode, requests, items, scan, clientClosedAt, sideVars, png, terr, fastVars>>

\* puppeteer.launch resolves: a browser is live.
GTLaunchOk(r, i) ==
    /\ tphase[r][i] = "launch"
    /\ tphase' = [tphase EXCEPT ![r][i] = "render"]
    /\ NoFault
    /\ UNCHANGED <<mode, requests, items, scan, clientClosedAt, sideVars, png, bgVars, terr, tresult, spc, fastVars, respVars>>

\* puppeteer.launch rejects: catch wraps the error, finally finds no browser.
GTLaunchFail(r, i) ==
    /\ tphase[r][i] = "launch"
    /\ terr' = [terr EXCEPT ![r][i] = "launch"]
    /\ Settle(r, i, "launch")
    /\ Fault
    /\ UNCHANGED <<mode, requests, items, scan, clientClosedAt, sideVars, png, fastVars>>

\* newPage, goto (15 s timeout), screenshot and sharp resolve.
GTRenderOk(r, i) ==
    /\ tphase[r][i] = "render"
    /\ tphase' = [tphase EXCEPT ![r][i] = "write"]
    /\ NoFault
    /\ UNCHANGED <<mode, requests, items, scan, clientClosedAt, sideVars, png, bgVars, terr, tresult, spc, fastVars, respVars>>

\* One of newPage, goto, screenshot, sharp rejects: catch, then finally.
GTRenderFail(r, i) ==
    /\ tphase[r][i] = "render"
    /\ \E e \in RenderErrors :
          /\ tphase' = [tphase EXCEPT ![r][i] = "close"]
          /\ terr' = [terr EXCEPT ![r][i] = e]
    /\ Fault
    /\ UNCHANGED <<mode, requests, items, scan, clientClosedAt, sideVars, png, bgVars, tresult, spc, fastVars, respVars>>

\* fs.writeFile opens pngPath for writing, which truncates it.
GTWriteOpenOk(r, i) ==
    /\ tphase[r][i] = "write"
    /\ png' = [png EXCEPT ![TaskKey(i)] = "partial"]
    /\ tphase' = [tphase EXCEPT ![r][i] = "writing"]
    /\ NoFault
    /\ UNCHANGED <<mode, requests, items, scan, clientClosedAt, sideVars, bgVars, terr, tresult, spc, fastVars, respVars>>

\* fs.writeFile cannot open pngPath (EACCES, EISDIR, ...).
GTWriteOpenFail(r, i) ==
    /\ tphase[r][i] = "write"
    /\ tphase' = [tphase EXCEPT ![r][i] = "close"]
    /\ terr' = [terr EXCEPT ![r][i] = "persist"]
    /\ Fault
    /\ UNCHANGED <<mode, requests, items, scan, clientClosedAt, sideVars, png, bgVars, tresult, spc, fastVars, respVars>>

\* The file k after a writer has written its whole buffer from offset 0.  The
\* writer truncated the file when it opened it ("partial"); if another writer
\* of the same path has written its buffer since, this buffer overwrites the
\* other one from the start and, when the other one is longer, its tail
\* stays: "mixed".  Nothing orders two writers of one path.
AfterData(k) ==
    IF png[k] = "partial" THEN {"thumb"} ELSE {"thumb", "mixed"}

\* fs.writeFile has written resizedBuffer and resolves.
GTWriteDataOk(r, i) ==
    /\ tphase[r][i] = "writing"
    /\ \E content \in AfterData(TaskKey(i)) :
          png' = [png EXCEPT ![TaskKey(i)] = content]
    /\ tphase' = [tphase EXCEPT ![r][i] = "close"]
    /\ NoFault
    /\ UNCHANGED <<mode, requests, items, scan, clientClosedAt, sideVars, bgVars, terr, tresult, spc, fastVars, respVars>>

\* fs.writeFile fails after the file was truncated (ENOSPC, EIO).
GTWriteDataFail(r, i) ==
    /\ tphase[r][i] = "writing"
    /\ tphase' = [tphase EXCEPT ![r][i] = "close"]
    /\ terr' = [terr EXCEPT ![r][i] = "persist"]
    /\ Fault
    /\ UNCHANGED <<mode, requests, items, scan, clientClosedAt, sideVars, png, bgVars, tresult, spc, fastVars, respVars>>

\* finally: `await browser.close()` resolves, then the promise settles.
GTClose(r, i) ==
    /\ tphase[r][i] = "close"
    /\ Settle(r, i, terr[r][i])
    /\ NoFault
    /\ UNCHANGED <<mode, requests, items, scan, clientClosedAt, sideVars, png, terr, fastVars>>

\* ---------------------------------------------------------------------
\* POST /manager/regenerate-thumbnails-fast/*: one browser, a pool of workers
\* ---------------------------------------------------------------------
\* if (completed % 5 === 0 || completed === totalFiles)
EmitNow(c, total) == c % PROGRESS_EVERY = 0 \/ c = total

\* generated: [`${pageNum}.png`] of a progress event, [] for a file that is no page
NewestOf(i) == IF IsPage(i) THEN <<TaskKey(i)>> ELSE <<>>

\* Variant: the event carries the index of the file, not the counter
AfterCompletionByIndex(c, out, i) ==
    IF EmitNow(c + 1, TotalFiles)
    THEN Append(out, ProgressEvent(i, TotalFiles, NewestOf(i)))
    ELSE out

\* completed++ and the throttled res.write when the file of index i is
\* completed; c is `completed` before the increment.
AfterCompletion(c, out, i) ==
    IF EmitNow(c + 1, TotalFiles)
    THEN Append(out, ProgressEvent(c + 1, TotalFiles, NewestOf(i)))
    ELSE out

\* The same for the files from..to - 1, which the loop skips one by one:
\* the n-th of them is completed as number c + n.
SkipEvents(from, to, c, out) ==
    LET all == [n \in 1..(to - from) |->
                   ProgressEvent(c + n, TotalFiles, NewestOf(from + n - 1))]
    IN out \o SelectSeq(all, LAMBDA m : EmitNow(m.current, TotalFiles))

\* new Array(MAX_CONCURRENT_PAGES): the number of workers
PoolSize == MAX_CONCURRENT_PAGES

\* Variant: the counter is incremented once more after the index was taken
WorkerLoopSkipping(c, gen, errs, out, rend) ==
    LET nxt == {j \in RegenWorkSet : j > currentIndex}
        stop == IF nxt = {} THEN TotalFiles + 1
                ELSE CHOOSE j \in nxt : \A k \in nxt : j <= k
        skipped == stop - currentIndex - 1
    IN /\ completed' = c + skipped
       /\ res' = SkipEvents(currentIndex + 1, stop, c, out)
       /\ generated' = gen
       /\ errors' = errs
       /\ IF nxt = {}
          THEN /\ currentIndex' = TotalFiles
               /\ nClosing' = nClosing + 1
               /\ rendering' = rend
          ELSE /\ currentIndex' = IF stop < TotalFiles THEN stop + 1 ELSE stop
               /\ rendering' = rend \cup {stop}
               /\ UNCHANGED nClosing

\* The while loop of a worker from its top, up to the next await: indices are
\* taken from currentIndex, a file that is no page is completed at once, the
\* first page is rendered (await page.goto) or, the indices being used up, the
\* worker leaves the loop (await page.close()).  c, gen, errs, out are
\* completed, generated, errors and the response as the loop finds them, rend
\* the renders of the other workers.
WorkerLoop(c, gen, errs, out, rend) ==
    LET nxt == {j \in RegenWorkSet : j > currentIndex}
        stop == IF nxt = {} THEN TotalFiles + 1
                ELSE CHOOSE j \in nxt : \A k \in nxt : j <= k
        skipped == stop - currentIndex - 1
    IN /\ completed' = c + skipped
       /\ res' = SkipEvents(currentIndex + 1, stop, c, out)
       /\ generated' = gen
       /\ errors' = errs
       /\ IF nxt = {}
          THEN /\ currentIndex' = TotalFiles
               /\ nClosing' = nClosing + 1
               /\ rendering' = rend
          ELSE /\ currentIndex' = stop
               /\ rendering' = rend \cup {stop}
               /\ UNCHANGED nClosing

\* The try block of index i ended with error e ("none": generated.push), then
\* completed++, the throttled progress event, and the loop goes on.
WorkerComplete(i, e, rend) ==
    LET ok == e = "none"
        gen1 == IF ok THEN generated (+) SetToBag({TaskKey(i)}) ELSE generated
        err1 == IF ok THEN errors ELSE errors (+) SetToBag({<<HtmlFiles[i], e>>})
        out1 == AfterCompletion(completed, res, i)
    IN WorkerLoop(completed + 1, gen1, err1, out1, rend)

FastStart ==
    /\ mode = "fast"
    /\ fpc = "idle"
    /\ fpc' = "readdir"
    /\ NoFault
    /\ UNCHANGED <<mode, requests, items, scan, clientClosedAt, sideVars, png, bgVars, taskVars, spc, browserUp,
                   currentIndex, completed, nNew, rendering, wopen, wdata, nClosing,
                   nSettled, respVars>>

\* readdir resolves: the reply for an empty folder, or writeHead and
\* `await puppeteer.launch`.
FastReaddirOk ==
    /\ fpc = "readdir"
    /\ IF TotalFiles = 0
       THEN /\ res' = <<NoFilesReply>>
            /\ resEnded' = TRUE
            /\ fpc' = "done"
       ELSE /\ fpc' = "launch"
            /\ res' = <<HeadReply>>
            /\ UNCHANGED resEnded
    /\ NoFault
    /\ UNCHANGED <<mode, requests, items, scan, clientClosedAt, sideVars, png, bgVars, taskVars, spc, browserUp,
                   currentIndex, completed, nNew, rendering, wopen, wdata, nClosing,
                   nSettled, errors, generated>>

FastReaddirFail ==
    /\ fpc = "readdir"
    /\ fpc' = "raised"
    /\ Fault
    /\ UNCHANGED <<mode, requests, items, scan, clientClosedAt, sideVars, png, bgVars, taskVars, spc, browserUp,
                   currentIndex, completed, nNew, rendering, wopen, wdata, nClosing,
                   nSettled, respVars>>

\* puppeteer.launch resolves: every worker runs up to `await browser.newPage()`.
FastLaunchOk ==
    /\ fpc = "launch"
    /\ fpc' = "workers"
    /\ browserUp' = TRUE
    /\ nNew' = PoolSize
    /\ NoFault
    /\ UNCHANGED <<mode, requests, items, scan, clientClosedAt, sideVars, png, bgVars, taskVars, spc, currentIndex,
                   completed, rendering, wopen, wdata, nClosing, nSettled,
                   respVars>>

\* puppeteer.launch rejects: finally finds no browser, the handler throws.
FastLaunchFail ==
    /\ fpc = "launch"
    /\ fpc' = "raised"
    /\ Fault
    /\ UNCHANGED <<mode, requests, items, scan, clientClosedAt, sideVars, png, bgVars, taskVars, spc, browserUp,
                   currentIndex, completed, nNew, rendering, wopen, wdata, nClosing,
                   nSettled, respVars>>

\* browser.newPage() resolves for one worker, which enters its loop.
WorkerNewPageOk ==
    /\ nNew > 0
    /\ browserUp
    /\ nNew' = nNew - 1
    /\ WorkerLoop(completed, generated, errors, res, rendering)
    /\ NoFault
    /\ UNCHANGED <<mode, requests, items, scan, clientClosedAt, sideVars, png, bgVars, taskVars, spc, fpc, browserUp,
                   wopen, wdata, nSettled, resEnded>>

\* A worker's promise rejects: Promise.all rejects at the first rejection and
\* the finally block awaits browser.close().
WorkerRejected ==
    /\ nSettled' = nSettled + 1
    /\ fpc' = IF fpc = "workers" THEN "abort" ELSE fpc

\* browser.newPage() rejects for one worker (always so once the browser is closed).
WorkerNewPageFail ==
    /\ nNew > 0
    /\ nNew' = nNew - 1
    /\ WorkerRejected
    /\ IF browserUp THEN Fault ELSE NoFault
    /\ UNCHANGED <<mode, requests, items, scan, clientClosedAt, sideVars, png, bgVars, taskVars, spc, browserUp,
                   currentIndex, completed, rendering, wopen, wdata, nClosing,
                   respVars>>

\* page.goto, page.screenshot and sharp resolve: fs.writeFile is awaited.
WorkerRenderOk(i) ==
    /\ i \in rendering
    /\ browserUp
    /\ rendering' = rendering \ {i}
    /\ wopen' = wopen \cup {i}
    /\ NoFault
    /\ UNCHANGED <<mode, requests, items, scan, clientClosedAt, sideVars, png, bgVars, taskVars, spc, fpc, browserUp,
                   currentIndex, completed, nNew, wdata, nClosing, nSettled,
                   respVars>>

\* One of them rejects (always so once the browser is closed): catch.
WorkerRenderFail(i) ==
    /\ i \in rendering
    /\ \E e \in RenderErrors :
          /\ (~browserUp) => e = "crash"
          /\ WorkerComplete(i, e, rendering \ {i})
    /\ IF browserUp THEN Fault ELSE NoFault
    /\ UNCHANGED <<mode, requests, items, scan, clientClosedAt, sideVars, png, bgVars, taskVars, spc, fpc, browserUp,
                   nNew, wopen, wdata, nSettled, resEnded>>

\* fs.writeFile opens pngPath for writing, which truncates it.
WorkerWriteOpenOk(i) ==
    /\ i \in wopen
    /\ wopen' = wopen \ {i}
    /\ wdata' = wdata \cup {i}
    /\ png' = [png EXCEPT ![TaskKey(i)] = "partial"]
    /\ NoFault
    /\ UNCHANGED <<mode, requests, items, scan, clientClosedAt, sideVars, bgVars, taskVars, spc, fpc, browserUp,
                   currentIndex, completed, nNew, rendering, nClosing, nSettled,
                   respVars>>

\* fs.writeFile cannot open pngPath: catch.
WorkerWriteOpenFail(i) ==
    /\ i \in wopen
    /\ wopen' = wopen \ {i}
    /\ WorkerComplete(i, "persist", rendering)
    /\ Fault
    /\ UNCHANGED <<mode, requests, items, scan, clientClosedAt, sideVars, png, bgVars, taskVars, spc, fpc, browserUp,
                   nNew, wdata, nSettled, resEnded>>

\* fs.writeFile has written resizedBuffer and resolves: generated.push.
WorkerWriteDataOk(i) ==
    /\ i \in wdata
    /\ wdata' = wdata \ {i}
    /\ \E content \in AfterData(TaskKey(i)) :
          png' = [png EXCEPT ![TaskKey(i)] = content]
    /\ WorkerComplete(i, "none", rendering)
    /\ NoFault
    /\ UNCHANGED <<mode, requests, items, scan, clientClosedAt, sideVars, bgVars, taskVars, spc, fpc, browserUp,
                   nNew, wopen, nSettled, resEnded>>

\* fs.writeFile fails after the file was truncated: catch.
WorkerWriteDataFail(i) ==
    /\ i \in wdata
    /\ wdata' = wdata \ {i}
    /\ WorkerComplete(i, "persist", rendering)
    /\ Fault
    /\ UNCHANGED <<mode, requests, items, scan, clientClosedAt, sideVars, png, bgVars, taskVars, spc, fpc, browserUp,
                   nNew, wopen, nSettled, resEnded>>

\* page.close() resolves: the worker's promise resolves; Promise.all resolves
\* with the last one and the finally block awaits browser.close().
WorkerPageCloseOk ==
    /\ nClosing > 0
    /\ browserUp
    /\ nClosing' = nClosing - 1
    /\ nSettled' = nSettled + 1
    /\ fpc' = IF fpc = "workers" /\ nSettled + 1 = PoolSize THEN "closeBrowser" ELSE fpc
    /\ NoFault
    /\ UNCHANGED <<mode, requests, items, scan, clientClosedAt, sideVars, png, bgVars, taskVars, spc, browserUp,
                   currentIndex, completed, nNew, rendering, wopen, wdata,
                   respVars>>

\* page.close() rejects: the browser was closed under the worker.
WorkerPageCloseFail ==
    /\ nClosing > 0
    /\ ~browserUp
    /\ nClosing' = nClosing - 1
    /\ WorkerRejected
    /\ NoFault
    /\ UNCHANGED <<mode, requests, items, scan, clientClosedAt, sideVars, png, bgVars, taskVars, spc, browserUp,
                   currentIndex, completed, nNew, rendering, wopen, wdata,
                   respVars>>

\* finally { await browser.close() } after a rejection: the error is thrown on
\* to asyncHandler; the other workers go on against a closed browser.
FastAbortClose ==
    /\ fpc = "abort"
    /\ fpc' = "raised"
    /\ browserUp' = FALSE
    /\ NoFault
    /\ UNCHANGED <<mode, requests, items, scan, clientClosedAt, sideVars, png, bgVars, taskVars, spc, currentIndex,
                   completed, nNew, rendering, wopen, wdata, nClosing, nSettled,
                   respVars>>

\* finally { await browser.close() } after Promise.all resolved, then
\* finalData is written and the response is ended.
FastCloseBrowser ==
    /\ fpc = "closeBrowser"
    /\ fpc' = "done"
    /\ browserUp' = FALSE
    /\ res' = Append(res, FinalEvent(errors, generated))
    /\ resEnded' = TRUE
    /\ NoFault
    /\ UNCHANGED <<mode, requests, items, scan, clientClosedAt, sideVars, png, bgVars, taskVars, spc, currentIndex,
                   completed, nNew, rendering, wopen, wdata, nClosing, nSettled,
                   errors, generated>>

\* GET /folder/*: the handler goes on after the detached call (its own
\* readdir, stat and access calls) and sends its response; it holds no
\* reference to the promise of the batch.
FolderReply(r) ==
    /\ bgpc[r] # "idle"
    /\ r \notin folderReplied
    /\ folderReplied' = folderReplied \cup {r}
    /\ NoFault
    /\ UNCHANGED <<mode, requests, items, scan, clientClosedAt, sideVars, png, bgpc, bgi,
                   existedAtStart, taskVars, spc, fastVars, respVars>>

\* ---------------------------------------------------------------------
\* The client of a regeneration request
\* ---------------------------------------------------------------------
\* The response is being streamed: writeHead was called, res.end() was not
Streaming == res # <<>> /\ res[1].type = "head" /\ ~resEnded

\* The client closes the connection while the response is streamed.  Neither
\* handler listens for 'close' on req or res nor reads res.writableEnded /
\* res.destroyed, so no state of a handler changes.  (Counted with the
\* failures: at most MaxFaults adverse events per behaviour.)
ClientClose ==
    /\ Streaming
    /\ clientClosedAt = -1
    /\ clientClosedAt' = Len(res)
    /\ Fault
    /\ UNCHANGED <<mode, requests, items, scan, sideVars, png, bgVars, taskVars, spc,
                   fastVars, respVars>>

NextBg ==
    \/ \E r \in BgRuns : BgStart(r)
    \/ \E r \in BgRuns : BgReaddirOk(r)
    \/ \E r \in BgRuns : BgReaddirFail(r)
    \/ \E r \in BgRuns : FolderReply(r)
    \/ \E r \in BgRuns, i \in Idx : TaskAccess(r, i)

NextStream ==
    \/ StreamStart
    \/ StreamReaddirOk
    \/ StreamReaddirFail

NextGT ==
    \/ \E r \in AllRuns, i \in Idx : GTLaunchOk(r, i)
    \/ \E r \in AllRuns, i \in Idx : GTLaunchFail(r, i)
    \/ \E r \in AllRuns, i \in Idx : GTRenderOk(r, i)
    \/ \E r \in AllRuns, i \in Idx : GTRenderFail(r, i)
    \/ \E r \in AllRuns, i \in Idx : GTWriteOpenOk(r, i)
    \/ \E r \in AllRuns, i \in Idx : GTWriteOpenFail(r, i)
    \/ \E r \in AllRuns, i \in Idx : GTWriteDataOk(r, i)
    \/ \E r \in AllRuns, i \in Idx : GTWriteDataFail(r, i)
    \/ \E r \in AllRuns, i \in Idx : GTClose(r, i)

NextFast ==
    \/ FastStart
    \/ FastReaddirOk
    \/ FastReaddirFail
    \/ FastLaunchOk
    \/ FastLaunchFail
    \/ WorkerNewPageOk
    \/ WorkerNewPageFail
    \/ \E i \in Idx : WorkerRenderOk(i)
    \/ \E i \in Idx : WorkerRenderFail(i)
    \/ \E i \in Idx : WorkerWriteOpenOk(i)
    \/ \E i \in Idx : WorkerWriteOpenFail(i)
    \/ \E i \in Idx : WorkerWriteDataOk(i)
    \/ \E i \in Idx : WorkerWriteDataFail(i)
    \/ WorkerPageCloseOk
    \/ WorkerPageCloseFail
    \/ FastAbortClose
    \/ FastCloseBrowser

Next == NextBg \/ NextStream \/ NextGT \/ NextFast \/ ClientClose

Spec == Init /\ [][Next]_vars

\* Every awaited operation settles and the event loop runs every callback
\* that is ready: no step that can be taken is put off for ever.
SpecLive == Spec /\ WF_vars(Next)

\* ---------------------------------------------------------------------
\* The earlier versions of generateThumbnail(htmlPath, pngPath)
\*   part_004: no try / finally; the screenshot is written to pngPath
\*   part_003: try / finally; the screenshot is written to pngPath
\*             (the same in part_001 and in the second definition of server.js)
\*   server:   try / finally; the screenshot is written to pngPath, read
\*             back, resized by sharp and written again (server.js:93)
\* Two calls, each with its own pngPath, run interleaved at their awaits.
\* ---------------------------------------------------------------------
Variants == {"part_004", "part_003", "server"}

\* try { ... } finally { if (browser) await browser.close(); }
HasFinally == variant # "part_004"

InitVariants ==
    /\ PipelineIdle
    /\ CacheIdle
    /\ PathIdle
    /\ RequestsIdle
    /\ variant \in Variants
    /\ vphase = [c \in Calls |-> "idle"]
    /\ vbrowser = [c \in Calls |-> "none"]
    /\ vfile \in [Calls -> {"absent", "old"}]
    /\ verr = [c \in Calls |-> "none"]
    /\ vresult = [c \in Calls |-> "none"]

\* An awaited operation of call c rejects with error e after the browser was
\* launched: with a finally block the browser is closed first, without one
\* the rejection leaves the function at once.
VThrow(c, e) ==
    IF HasFinally
    THEN /\ vphase' = [vphase EXCEPT ![c] = "close"]
         /\ verr' = [verr EXCEPT ![c] = e]
         /\ UNCHANGED vresult
    ELSE /\ vphase' = [vphase EXCEPT ![c] = "thrown"]
         /\ vresult' = [vresult EXCEPT ![c] = e]
         /\ UNCHANGED verr

\* generateThumbnail is called: it runs up to `await puppeteer.launch`.
VCall(c) ==
    /\ vphase[c] = "idle"
    /\ vphase' = [vphase EXCEPT ![c] = "launch"]
    /\ UNCHANGED <<outsideVariants, variant, vbrowser, vfile, verr, vresult>>

\* puppeteer.launch resolves; newPage and page.goto are awaited.
VLaunchOk(c) ==
    /\ vphase[c] = "launch"
    /\ vphase' = [vphase EXCEPT ![c] = "render"]
    /\ vbrowser' = [vbrowser EXCEPT ![c] = "live"]
    /\ UNCHANGED <<outsideVariants, variant, vfile, verr, vresult>>

\* puppeteer.launch rejects: there is no browser to close.
VLaunchFail(c) ==
    /\ vphase[c] = "launch"
    /\ vphase' = [vphase EXCEPT ![c] = "thrown"]
    /\ vresult' = [vresult EXCEPT ![c] = "launch"]
    /\ UNCHANGED <<outsideVariants, variant, vbrowser, vfile, verr>>

\* newPage and page.goto resolve; page.screenshot({ path: pngPath }) is awaited.
VRenderOk(c) ==
    /\ vphase[c] = "render"
    /\ vphase' = [vphase EXCEPT ![c] = "shot"]
    /\ UNCHANGED <<outsideVariants, variant, vbrowser, vfile, verr, vresult>>

\* newPage or page.goto rejects, or the capture of the screenshot fails.
VRenderFail(c, e) ==
    /\ vphase[c] \in {"render", "shot"}
    /\ VThrow(c, e)
    /\ UNCHANGED <<outsideVariants, variant, vbrowser, vfile>>

\* page.screenshot opens pngPath for writing: the file is truncated.
VShotOpen(c) ==
    /\ vphase[c] = "shot"
    /\ vphase' = [vphase EXCEPT ![c] = "shotWrite"]
    /\ vfile' = [vfile EXCEPT ![c] = "partial"]
    /\ UNCHANGED <<outsideVariants, variant, vbrowser, verr, vresult>>

\* page.screenshot resolves: the full-page screenshot is at pngPath.  In
\* server.js readFileSync(pngPath) follows and sharp is awaited; elsewhere
\* the function is at its end.
VShotDone(c) ==
    /\ vphase[c] = "shotWrite"
    /\ vfile' = [vfile EXCEPT ![c] = "raw"]
    /\ vphase' = [vphase EXCEPT ![c] = IF variant = "server" THEN "resize" ELSE "close"]
    /\ UNCHANGED <<outsideVariants, variant, vbrowser, verr, vresult>>

\* The write of the screenshot fails: the truncated file stays.
VShotWriteFail(c) ==
    /\ vphase[c] = "shotWrite"
    /\ VThrow(c, "persist")
    /\ UNCHANGED <<outsideVariants, variant, vbrowser, vfile>>

\* server.js: sharp(buffer).resize(250, 250).toBuffer() resolves and
\* fs.writeFileSync(pngPath, resizedBuffer) returns.
VResizeOk(c) ==
    /\ vphase[c] = "resize"
    /\ vfile' = [vfile EXCEPT ![c] = "thumb"]
    /\ vphase' = [vphase EXCEPT ![c] = "close"]
    /\ UNCHANGED <<outsideVariants, variant, vbrowser, verr, vresult>>

\* server.js: sharp rejects; the screenshot stays at pngPath.
VResizeFail(c) ==
    /\ vphase[c] = "resize"
    /\ VThrow(c, "codec")
    /\ UNCHANGED <<outsideVariants, variant, vbrowser, vfile>>

\* server.js: fs.writeFileSync throws after it has truncated the file.
VWriteSyncFail(c) ==
    /\ vphase[c] = "resize"
    /\ vfile' = [vfile EXCEPT ![c] = "partial"]
    /\ VThrow(c, "persist")
    /\ UNCHANGED <<outsideVariants, variant, vbrowser>>

\* await browser.close() resolves; the function returns or the error held
\* is thrown.
VClose(c) ==
    /\ vphase[c] = "close"
    /\ vbrowser' = [vbrowser EXCEPT ![c] = "closed"]
    /\ vphase' = [vphase EXCEPT ![c] = IF verr[c] = "none" THEN "returned" ELSE "thrown"]
    /\ vresult' = [vresult EXCEPT ![c] = IF verr[c] = "none" THEN "returned" ELSE verr[c]]
    /\ UNCHANGED <<outsideVariants, variant, vfile, verr>>

NextVariants ==
    \/ \E c \in Calls : VCall(c)
    \/ \E c \in Calls : VLaunchOk(c)
    \/ \E c \in Calls : VLaunchFail(c)
    \/ \E c \in Calls : VRenderOk(c)
    \/ \E c \in Calls, e \in RenderErrors : VRenderFail(c, e)
    \/ \E c \in Calls : VShotOpen(c)
    \/ \E c \in Calls : VShotDone(c)
    \/ \E c \in Calls : VShotWriteFail(c)
    \/ \E c \in Calls : VResizeOk(c)
    \/ \E c \in Calls : VResizeFail(c)
    \/ \E c \in Calls : VWriteSyncFail(c)
    \/ \E c \in Calls : VClose(c)

SpecVariants == InitVariants /\ [][NextVariants]_vars

\* ---------------------------------------------------------------------
\* server.js: the in-memory image cache of app.use('/teletext')
\* The content of a PNG file is named by the number of the write that put it
\* there, so that two contents written at different times differ.
\* ---------------------------------------------------------------------
InitCache ==
    /\ PipelineIdle
    /\ VariantsIdle
    /\ PathIdle
    /\ RequestsIdle
    /\ CacheIdle

\* A PNG is written at path p: generateThumbnail (fs.writeFileSync), or an
\* upload (fs.copyFileSync).  No writer touches imageCache.
WritePng(p) ==
    /\ nWrites < MaxWrites
    /\ nWrites' = nWrites + 1
    /\ disk' = [disk EXCEPT ![p] = nWrites + 1]
    /\ UNCHANGED <<outsideCache, imageCache, lastReply>>

\* The PNG at path p is removed: delete-item (fs.unlinkSync), rename-item or
\* move-item (fs.renameSync).  imageCache is not touched.
RemovePng(p) ==
    /\ disk[p] # 0
    /\ disk' = [disk EXCEPT ![p] = 0]
    /\ UNCHANGED <<outsideCache, imageCache, nWrites, lastReply>>

\* What the handler puts into imageCache for p
CacheAfterRead(p) == [imageCache EXCEPT ![p] = disk[p]]

\* GET /teletext/<p>: the cached buffer if imageCache has the path, else the
\* file, which is cached, else 404.
GetPng(p) ==
    /\ IF imageCache[p] # 0
       THEN /\ lastReply' = [status |-> 200, path |-> p, bytes |-> imageCache[p],
                             onDisk |-> disk[p]]
            /\ UNCHANGED imageCache
       ELSE IF disk[p] # 0
       THEN /\ imageCache' = CacheAfterRead(p)
            /\ lastReply' = [status |-> 200, path |-> p, bytes |-> disk[p],
                             onDisk |-> disk[p]]
       ELSE /\ lastReply' = [status |-> 404, path |-> p, bytes |-> 0, onDisk |-> 0]
            /\ UNCHANGED imageCache
    /\ UNCHANGED <<outsideCache, disk, nWrites>>

NextCache ==
    \/ \E p \in Paths : WritePng(p)
    \/ \E p \in Paths : RemovePng(p)
    \/ \E p \in Paths : GetPng(p)

SpecCache == InitCache /\ [][NextCache]_vars

\* ---------------------------------------------------------------------
\* isValidPath and the handlers that join a request's path against the
\* archive root (a string is the sequence of its code points)
\* ---------------------------------------------------------------------
\* \s of a regular expression with the u flag
IsWhiteSpace(c) ==
    \/ c \in 9..13
    \/ c \in {32, 160, 5760, 8232, 8233, 8239, 8287, 12288, 65279}
    \/ c \in 8192..8202

\* [a-zA-Zа-яА-ЯёЁ0-9\s,. -_\/&()'\[\]{}@#~$%^*+=<>:;] : in the class,
\* " -_" is the range from the space (32) to the underscore (95)
AllowedChar(c) ==
    \/ c \in 97..122
    \/ c \in 65..90
    \/ c \in 1072..1103
    \/ c \in 1040..1071
    \/ c \in {1105, 1025}
    \/ c \in 48..57
    \/ IsWhiteSpace(c)
    \/ c \in {44, 46}
    \/ c \in 32..95
    \/ c \in {47, 38, 40, 41, 39, 91, 93, 123, 125, 64, 35, 126, 36, 37, 94, 42,
              43, 61, 60, 62, 58, 59}

\* allowedChars.test(p): ^[...]+$
AllowedCharsTest(p) == p # <<>> /\ \A i \in 1..Len(p) : AllowedChar(p[i])

\* String.prototype.includes
Includes(p, sub) ==
    \E i \in 1..(Len(p) - Len(sub) + 1) : SubSeq(p, i, i + Len(sub) - 1) = sub

\* String.prototype.startsWith
StartsWith(p, pre) == Len(p) >= Len(pre) /\ SubSeq(p, 1, Len(pre)) = pre

\* String.prototype.endsWith
EndsWith(p, suf) ==
    Len(p) >= Len(suf) /\ SubSeq(p, Len(p) - Len(suf) + 1, Len(p)) = suf

\* Variant: the version without the allow-list
isValidPathNoAllowList(p) ==
    IF p = <<>> THEN TRUE
    ELSE /\ ~Includes(p, <<46, 46>>)
         /\ ~StartsWith(p, <<47>>)
         /\ ~Includes(p, <<58>>)
         /\ ~Includes(p, <<92>>)
         /\ ~Includes(p, <<0>>)

isValidPath(p) ==
    IF p = <<>> THEN TRUE
    ELSE IF ~AllowedCharsTest(p) THEN FALSE
    ELSE /\ ~Includes(p, <<46, 46>>)
         /\ ~StartsWith(p, <<47>>)
         /\ ~Includes(p, <<58>>)
         /\ ~Includes(p, <<92>>)
         /\ ~Includes(p, <<0>>)

\* String.prototype.trim
RECURSIVE Trim(_)
Trim(s) ==
    IF s = <<>> THEN s
    ELSE IF IsWhiteSpace(Head(s)) THEN Trim(Tail(s))
    ELSE IF IsWhiteSpace(s[Len(s)]) THEN Trim(SubSeq(s, 1, Len(s) - 1))
    ELSE s

\* The segments of a POSIX path: what stands between its slashes
RECURSIVE Split(_)
Split(p) ==
    IF \A i \in 1..Len(p) : p[i] # 47 THEN <<p>>
    ELSE LET k == CHOOSE i \in 1..Len(p) :
                      p[i] = 47 /\ \A j \in 1..(i - 1) : p[j] # 47
         IN <<SubSeq(p, 1, k - 1)>> \o Split(SubSeq(p, k + 1, Len(p)))

\* path.join on an absolute base (path.normalize): an empty segment and "."
\* are dropped, ".." removes the segment before it, and nothing is above "/"
RECURSIVE Normalize(_, _)
Normalize(base, segs) ==
    IF segs = <<>> THEN base
    ELSE LET s == Head(segs)
         IN IF s = <<>> \/ s = <<46>> THEN Normalize(base, Tail(segs))
            ELSE IF s = <<46, 46>>
                 THEN Normalize(IF base = <<>> THEN base
                                ELSE SubSeq(base, 1, Len(base) - 1), Tail(segs))
            ELSE Normalize(Append(base, s), Tail(segs))

\* path.basename: the last segment, trailing slashes ignored
Basename(name) ==
    LET segs == SelectSeq(Split(name), LAMBDA s : s # <<>>)
    IN IF segs = <<>> THEN <<>> ELSE segs[Len(segs)]

\* __dirname, and path.join(__dirname, 'teletext'): the archive root
Dirname == << <<115, 114, 118>> >>

ArchiveRoot == Append(Dirname, <<116, 101, 108, 101, 116, 101, 120, 116>>)

\* A path is inside the archive root: the root itself or below it
Inside(p) == Len(p) >= Len(ArchiveRoot) /\ SubSeq(p, 1, Len(ArchiveRoot)) = ArchiveRoot

\* p is q or a directory above q
IsPrefix(p, q) == Len(p) <= Len(q) /\ SubSeq(q, 1, Len(p)) = p

\* The archive root and the directories above it exist throughout
AlwaysExists(p) == IsPrefix(p, ArchiveRoot)

\* The characters request paths are made of: NUL . / : \ a |
PathChars == {0, 46, 47, 58, 92, 97, 124}

RECURSIVE PathsOfLen(_)
PathsOfLen(n) ==
    IF n = 0 THEN {<<>>}
    ELSE {Append(p, c) : p \in PathsOfLen(n - 1), c \in PathChars}

\* "Archive/Sub Folder"
ArchiveSubFolder ==
    <<65, 114, 99, 104, 105, 118, 101, 47, 83, 117, 98, 32, 70, 111, 108, 100,
      101, 114>>

\* "../../etc"
DotDotEtc == <<46, 46, 47, 46, 46, 47, 101, 116, 99>>

\* req.params[0] or req.url of the requests followed: every path of at most
\* MaxPathLen characters, the two paths above, "Страница" "/a.png" and "/../a.png"
PathInputs ==
    UNION {PathsOfLen(n) : n \in 0..MaxPathLen}
    \cup {ArchiveSubFolder, DotDotEtc,
          <<1057, 1090, 1088>>,
          <<47, 97, 46, 112, 110, 103>>,
          <<47, 46, 46, 47, 97, 46, 112, 110, 103>>}

\* req.body.name of the requests followed: none, "a", " ", "..", "../a", "a/.."
NameInputs ==
    {<<>>, <<97>>, <<32>>, <<46, 46>>, <<46, 46, 47, 97>>, <<97, 47, 46, 46>>}

FsCall(op, p) == [op |-> op, path |-> p]

InitPath ==
    /\ PipelineIdle
    /\ VariantsIdle
    /\ CacheIdle
    /\ RequestsIdle
    /\ reqPath \in PathInputs
    /\ reqName \in NameInputs
    /\ handler = "none"
    /\ valid = "none"
    /\ fsCalls = <<>>
    /\ status = 0

outsidePath == <<mode, requests, faults, items, scan, clientClosedAt, png, bgVars,
                 taskVars, spc, fastVars, respVars, variantVars, cacheVars, requestVars>>

\* A handler is done: its filesystem calls and the status of its response
Handled(h, v, calls, st) ==
    /\ handler' = h
    /\ valid' = v
    /\ fsCalls' = calls
    /\ status' = st
    /\ UNCHANGED <<reqPath, reqName, outsidePath>>

\* isValidPath(p) is called on the path of a request
Validate ==
    /\ handler = "none"
    /\ Handled("isValidPath",
               IF isValidPath(reqPath) THEN "accepted" ELSE "rejected", <<>>, 0)

\* POST /create-folder/* as server.js has it: name is trimmed and joined
CreateFolder ==
    /\ handler = "none"
    /\ LET cleanName == Trim(reqName)
           fullPath == Normalize(ArchiveRoot, Split(reqPath))
           dirPath == Normalize(fullPath, Split(cleanName))
       IN IF reqName = <<>> \/ cleanName = <<>>
          THEN Handled("create-folder", "none", <<>>, 400)
          ELSE IF ~isValidPath(reqPath)
          THEN Handled("create-folder", "rejected", <<>>, 400)
          ELSE \/ /\ ~AlwaysExists(fullPath)
                  /\ Handled("create-folder", "accepted",
                             <<FsCall("existsSync", fullPath)>>, 404)
               \/ Handled("create-folder", "accepted",
                          <<FsCall("existsSync", fullPath),
                            FsCall("existsSync", dirPath)>>, 400)
               \/ \E st \in {200, 500} :
                      /\ ~AlwaysExists(dirPath)
                      /\ ~IsPrefix(dirPath, fullPath)
                      /\ Handled("create-folder", "accepted",
                              <<FsCall("existsSync", fullPath),
                                FsCall("existsSync", dirPath),
                                FsCall("mkdirSync", dirPath)>>, st)

\* POST /delete-item/*: path.basename(name) is joined after the path
DeleteItem ==
    /\ handler = "none"
    /\ \E type \in {"file", "folder", "other"} :
          LET cleanName == Basename(reqName)
              fullPath == Normalize(ArchiveRoot, Split(reqPath) \o <<cleanName>>)
          IN IF reqName = <<>> \/ type = "other"
             THEN Handled("delete-item", "none", <<>>, 400)
             ELSE IF ~isValidPath(reqPath)
             THEN Handled("delete-item", "rejected", <<>>, 400)
             ELSE \/ /\ ~AlwaysExists(fullPath)
                     /\ Handled("delete-item", "accepted",
                                <<FsCall("access", fullPath)>>, 404)
                  \/ \E st \in {200, 500} :
                         Handled("delete-item", "accepted",
                                 <<FsCall("access", fullPath),
                                   FsCall(IF type = "file" THEN "unlink" ELSE "rm",
                                          fullPath)>>, st)

\* app.use('/teletext'): a URL ending in .png is joined after the root and
\* read (the image cache holds nothing yet); any other URL goes to
\* express.static
TeletextPng ==
    /\ handler = "none"
    /\ StartsWith(reqPath, <<47>>)
    /\ LET fullPath == Normalize(ArchiveRoot, Split(reqPath))
       IN IF EndsWith(reqPath, <<46, 112, 110, 103>>)
          THEN \/ /\ ~AlwaysExists(fullPath)
                  /\ Handled("teletext", "none",
                             <<FsCall("existsSync", fullPath)>>, 404)
               \/ \E st \in {200, 500} :
                      Handled("teletext", "none",
                              <<FsCall("existsSync", fullPath),
                                FsCall("readFileSync", fullPath)>>, st)
          ELSE Handled("static", "none", <<>>, 0)

NextPath ==
    \/ Validate
    \/ CreateFolder
    \/ DeleteItem
    \/ TeletextPng

SpecPath == InitPath /\ [][NextPath]_vars

\* ---------------------------------------------------------------------
\* GET /page/*/:page: the page numbers of the folder and the navigation
\* ---------------------------------------------------------------------
\* The names a folder is made of: 100.html .. 103.html, 0100.html,
\* 101_05.html, abc.html
ViewNames ==
    {PlainEntry(i) : i \in 1..4}
    \cup {Html(<<"0", "1", "0", "0">>), Html(<<"1", "0", "1", "_", "0", "5">>),
          Html(<<"a", "b", "c">>)}

\* htmlFilesOnly.map(parseInt).filter(range).sort((a, b) => a - b) over the
\* names fs, the order of readdir lost in the sort
RECURSIVE SortedPageNumbers(_)
SortedPageNumbers(fs) ==
    LET pf == {f \in fs : EndsWithHtml(f) /\ IsPageFile(f)} IN
    IF pf = {} THEN <<>>
    ELSE LET f == CHOOSE g \in pf :
                      \A h \in pf : ParseInt(PageStr(g)) <= ParseInt(PageStr(h))
         IN <<ParseInt(PageStr(f))>> \o SortedPageNumbers(pf \ {f})

\* pageNumbers.indexOf(page) + 1: the first position of page, 0 if none
IndexOf(seq, x) ==
    IF \E i \in 1..Len(seq) : seq[i] = x
    THEN CHOOSE i \in 1..Len(seq) : seq[i] = x /\ \A j \in 1..(i - 1) : seq[j] # x
    ELSE 0

InitView ==
    /\ PipelineIdle
    /\ VariantsIdle
    /\ CacheIdle
    /\ PathIdle
    /\ RenameIdle
    /\ YearIdle
    /\ viewFiles \in {fs \in SUBSET ViewNames : Cardinality(fs) <= MaxViewFiles}
    /\ viewPage \in PAGE_MIN..(PAGE_MIN + 3)
    /\ viewReply = [status |-> 0, pageNumbers |-> <<>>, prevPage |-> 0, nextPage |-> 0]

\* The handler from fs.access(htmlFile) to the rendering of the page
PageView ==
    /\ viewReply.status = 0
    /\ LET pageNumbers == SortedPageNumbers(viewFiles)
           at == IndexOf(pageNumbers, viewPage)
       IN viewReply' =
              IF Html(NumToStr(viewPage)) \notin viewFiles
              THEN [viewReply EXCEPT !.status = 404]
              ELSE [status |-> 200,
                    pageNumbers |-> pageNumbers,
                    prevPage |-> IF at - 1 > 0 THEN pageNumbers[at - 1] ELSE 0,
                    nextPage |-> IF at - 1 < Len(pageNumbers) - 1
                                 THEN pageNumbers[at + 1] ELSE 0]
    /\ UNCHANGED <<viewFiles, viewPage, pipelineVars, variantVars, cacheVars, pathVars,
                   renameVars, yearVars>>

NextView == PageView

SpecView == InitView /\ [][NextView]_vars

\* ---------------------------------------------------------------------
\* The rename retry loop of rename-item and save-card
\* ---------------------------------------------------------------------
\* const maxRetries = 3
maxRetries == 3

\* The handlers that hold the loop: rename-item and save-card of part_002,
\* rename-item of server.js (renameSync and a busy wait)
RenameRoutes == {"rename-item", "save-card", "rename-item-sync"}

\* renameErr.code of a failed fs.rename
RenameCodes == {"EPERM", "EBUSY", "ENOENT", "EACCES"}

InitRename ==
    /\ PipelineIdle
    /\ VariantsIdle
    /\ CacheIdle
    /\ PathIdle
    /\ ViewIdle
    /\ YearIdle
    /\ RenameIdle

outsideRename == <<pipelineVars, variantVars, cacheVars, pathVars, viewVars, yearVars>>

\* The request passes its checks (the source exists, the target does not)
\* and enters the loop with i = 0, or is answered 404 / 400 before it.
RenameStart(route) ==
    /\ rnPc = "idle"
    /\ rnRoute' = route
    /\ \/ /\ rnPc' = "rename"
          /\ UNCHANGED rnStatus
       \/ /\ rnPc' = "replied"
          /\ rnStatus' \in {400, 404}
    /\ UNCHANGED <<rnI, rnErrs, rnRenamed, rnLocked, outsideRename>>

\* fs.rename resolves: success = true, break, res.json({ success: true })
RenameOk ==
    /\ rnPc = "rename"
    /\ ~rnLocked
    /\ rnRenamed' = TRUE
    /\ rnPc' = "replied"
    /\ rnStatus' = 200
    /\ UNCHANGED <<rnRoute, rnI, rnErrs, rnLocked, outsideRename>>

\* Variant: every error is retried while attempts are left
RenameFailRetryAll(code) ==
    /\ rnPc = "rename"
    /\ code = "EPERM" => rnLocked
    /\ rnErrs' = Append(rnErrs, code)
    /\ IF rnI < maxRetries - 1
       THEN /\ rnPc' = "sleep"
            /\ UNCHANGED rnStatus
       ELSE /\ rnPc' = "replied"
            /\ rnStatus' = 500
    /\ UNCHANGED <<rnRoute, rnI, rnRenamed, rnLocked, outsideRename>>

\* fs.rename rejects with renameErr.code = code: EPERM with attempts left
\* waits one second, anything else is thrown and answered as an error
RenameFail(code) ==
    /\ rnPc = "rename"
    /\ code = "EPERM" => rnLocked
    /\ rnErrs' = Append(rnErrs, code)
    /\ IF code = "EPERM" /\ rnI < maxRetries - 1
       THEN /\ rnPc' = "sleep"
            /\ UNCHANGED rnStatus
       ELSE /\ rnPc' = "replied"
            /\ rnStatus' = 500
    /\ UNCHANGED <<rnRoute, rnI, rnRenamed, rnLocked, outsideRename>>

\* The delay is over: i++, i < maxRetries, the next attempt
RenameSleepEnd ==
    /\ rnPc = "sleep"
    /\ rnI' = rnI + 1
    /\ rnPc' = "rename"
    /\ UNCHANGED <<rnRoute, rnErrs, rnRenamed, rnStatus, rnLocked, outsideRename>>

\* Another process opens the source, or closes it
SourceLock ==
    /\ rnLocked' = ~rnLocked
    /\ UNCHANGED <<rnRoute, rnPc, rnI, rnErrs, rnRenamed, rnStatus, outsideRename>>

NextRename ==
    \/ SourceLock
    \/ \E route \in RenameRoutes : RenameStart(route)
    \/ RenameOk
    \/ \E code \in RenameCodes : RenameFail(code)
    \/ RenameSleepEnd

SpecRename == InitRename /\ [][NextRename]_vars

\* ---------------------------------------------------------------------
\* GET /folder/*: foldersByYear
\* ---------------------------------------------------------------------
\* The characters subfolder names are made of
YearChars == {"0", "1", "2", "5", "9", "x"}

RECURSIVE FolderNamesOfLen(_)
FolderNamesOfLen(n) ==
    IF n = 0 THEN {<<>>}
    ELSE {Append(f, c) : f \in FolderNamesOfLen(n - 1), c \in YearChars}

\* Variant: the two-digit alternative is taken whenever it matches
YearMatchShort(folder) ==
    LET n == Len(folder) IN
    IF n >= 2 /\ IsDigit(folder[n - 1]) /\ IsDigit(folder[n])
    THEN SubSeq(folder, n - 1, n)
    ELSE <<>>

\* folder.match(/(\d{2}|\d{4})$/): the match starts at the leftmost position
\* from which two digits, or four digits, reach the end of the name;
\* dateMatch[1], or <<>> when dateMatch is null
YearMatch(folder) ==
    LET n == Len(folder)
        digits(a, b) == \A k \in a..b : IsDigit(folder[k])
        starts == {s \in 1..n : \/ s + 1 = n /\ digits(s, s + 1)
                                \/ s + 3 = n /\ digits(s, s + 3)}
    IN IF starts = {} THEN <<>>
       ELSE SubSeq(folder, CHOOSE s \in starts : \A t \in starts : s <= t, n)

\* let year = 0; if (dateMatch) { ... }
YearOf(folder) ==
    LET yearPart == YearMatch(folder) IN
    IF yearPart = <<>> THEN 0
    ELSE IF Len(yearPart) = 4 THEN ParseInt(yearPart)
    ELSE IF Len(yearPart) = 2
         THEN (IF ParseInt(yearPart) > 25 THEN 1900 + ParseInt(yearPart)
               ELSE 2000 + ParseInt(yearPart))
    ELSE 0

InitYear ==
    /\ PipelineIdle
    /\ VariantsIdle
    /\ CacheIdle
    /\ PathIdle
    /\ ViewIdle
    /\ RenameIdle
    /\ yrFolder \in UNION {FolderNamesOfLen(n) : n \in 0..MaxFolderNameLen}
    /\ yrYear = -1

\* One turn of folders.forEach
FolderYear ==
    /\ yrYear = -1
    /\ yrYear' = YearOf(yrFolder)
    /\ UNCHANGED <<yrFolder, pipelineVars, variantVars, cacheVars, pathVars, viewVars,
                   renameVars>>

NextYear == FolderYear

SpecYear == InitYear /\ [][NextYear]_vars

\* ---------------------------------------------------------------------
\* Properties
\* ---------------------------------------------------------------------
\* A call of generateThumbnail is in progress from its start to its settling
InProgressPhases == {"launch", "render", "write", "writing", "close"}

RendersInProgress(r) == Cardinality({i \in Idx : tphase[r][i] \in InProgressPhases})

\* The renders of the fast endpoint: from page.goto to the end of writeFile
FastInProgress == Cardinality(rendering \cup wopen \cup wdata)

\* The progress events written to the response, in the order written
ProgressEvents == SelectSeq(res, LAMBDA m : m.type = "progress")

FinalEvents == SelectSeq(res, LAMBDA m : m.type = "final")

\* The batch of a regeneration request has run to its end
StreamCompleted == mode = "stream" /\ spc = "done" /\ TotalFiles > 0

FastCompleted == mode = "fast" /\ fpc = "done" /\ TotalFiles > 0

\* The generation failures a task of run r has ended with
Failed(r, i) == tresult[r][i] \in ErrorKinds

\* C1: within one batch run the renders in progress never exceed the ceiling:
\* MAX_CONCURRENT for a background run, MAX_CONCURRENT_PAGES for the fast
\* endpoint, whatever the number of html files.
C1_CeilingPerRun ==
    /\ \A r \in BgRuns : RendersInProgress(r) <= MAX_CONCURRENT
    /\ FastInProgress <= MAX_CONCURRENT_PAGES

\* C1 witness: a background run is at its ceiling while a further page of the
\* folder has not been started.
C1_Witness ==
    \E r \in BgRuns :
        /\ RendersInProgress(r) = MAX_CONCURRENT
        /\ \E i \in PageIdx : tphase[r][i] = "idle"

\* C2: the browsers live at any moment, over all runs of the process, never
\* exceed the ceiling MAX_CONCURRENT.
C2_GlobalCeiling ==
    LET live == {<<r, i>> \in BgRuns \X Idx : tphase[r][i] \in BrowserPhases}
    IN Cardinality(live) <= MAX_CONCURRENT

\* C3: a failed task does not stop its batch: a batch that has ended has
\* attempted and settled every page of the folder, and a batch is never left
\* by an error of one of its tasks (the stream request is raised only before
\* its first task, the fast request is aborted only by a failure that is not
\* recorded as a task failure; a background run never throws).
C3_FailureIsolated ==
    /\ \A r \in BgRuns :
          bgpc[r] = "done" => \A i \in PageIdx : tresult[r][i] # "none"
    /\ spc = "raised" => \A i \in Idx : tresult[StreamRun][i] = "none"
    /\ spc = "done" => \A i \in PageIdx : tresult[StreamRun][i] # "none"
    /\ fpc = "abort" => faults > BagCardinality(errors)
    /\ fpc = "done" =>
          /\ currentIndex = TotalFiles
          /\ completed = TotalFiles
          /\ \A i \in PageIdx :
                \/ BagIn(TaskKey(i), generated)
                \/ \E e \in ErrorKinds : BagIn(<<HtmlFiles[i], e>>, errors)

\* C3 witness: a stream batch has ended in which a task failed and a later
\* task generated its thumbnail.
C3_Witness ==
    /\ StreamCompleted
    /\ \E i, j \in PageIdx :
          i < j /\ Failed(StreamRun, i) /\ tresult[StreamRun][j] = "generated"

\* C4: a background run never renders a page whose PNG existed when the run
\* was started (so a folder whose pages all have a PNG is rendered zero times),
\* and no step of background mode changes a PNG that was there before the
\* first request.
C4_NoRerender ==
    \A r \in BgRuns : \A i \in PageIdx :
        TaskKey(i) \in existedAtStart[r] =>
            /\ tphase[r][i] \notin InProgressPhases
            /\ tresult[r][i] \in {"none", "skipped"}

C4_OldKept ==
    mode = "background" =>
        \A k \in DOMAIN png : png[k] = "old" => png'[k] = "old"

C5_RegenerateAll ==
    /\ StreamCompleted =>
          \A i \in PageIdx :
             /\ tresult[StreamRun][i] = "generated" \/ Failed(StreamRun, i)
             /\ tresult[StreamRun][i] = "generated" =>
                   png[TaskKey(i)] \in {"thumb", "partial", "mixed"}
    /\ FastCompleted =>
          \A i \in PageIdx :
             /\ \/ BagIn(TaskKey(i), generated)
                \/ \E e \in ErrorKinds : BagIn(<<HtmlFiles[i], e>>, errors)
             /\ BagIn(TaskKey(i), generated) =>
                   png[TaskKey(i)] \in {"thumb", "partial", "mixed"}
    /\ (StreamCompleted \/ FastCompleted) /\ faults = 0 =>
          \A i \in PageIdx : png[TaskKey(i)] \in {"thumb", "mixed"}

\* C5 witness: the stream endpoint is rendering a page whose old PNG exists.
C5_Witness ==
    \E i \in PageIdx :
        /\ tphase[StreamRun][i] = "render"
        /\ png[TaskKey(i)] = "old"

\* C6: when the background runs over a folder have ended without any failure,
\* the folder listing reports hasThumb = true for every page.
C6_ListedAfterRun ==
    ( /\ mode = "background"
      /\ \A r \in requests : bgpc[r] = "done"
      /\ faults = 0 )
    => \A i \in PageIdx : HasThumb(i)

\* C7: the terminal message of a regeneration batch carries success: true, and
\* its generated entries plus its errors entries are as many as the pages of
\* the folder; a stream batch that has ended has written it last.
C7_TerminalTotals ==
    /\ \A k \in 1..Len(res) :
          res[k].type = "final" =>
             /\ res[k].success
             /\ BagCardinality(res[k].generated) + BagCardinality(res[k].errors)
                   = Cardinality(PageIdx)
             /\ k = Len(res)
    /\ (StreamCompleted \/ FastCompleted) => res[Len(res)].type = "final"

\* C7 witness: a terminal message reports a generated page and a failed one.
C7_Witness ==
    /\ Len(res) > 0
    /\ res[Len(res)].type = "final"
    /\ res[Len(res)].generated # EmptyBag
    /\ res[Len(res)].errors # EmptyBag

\* C8: the `current` fields of the progress events of a request never
\* decrease, in the order the events are written.
C8_CurrentMonotonic ==
    \A a, b \in 1..Len(ProgressEvents) :
        a < b => ProgressEvents[a].current <= ProgressEvents[b].current

\* C8 witness: the fast endpoint has written two progress events.
C8_Witness == mode = "fast" /\ Len(ProgressEvents) >= 2

\* C9: when a regeneration batch has run to its end, the last progress event
\* written has current = total; stated for the batches in which no operation
\* has failed at all, so that no abort of any kind is involved.
C9_LastEventIsTotal ==
    ((StreamCompleted \/ FastCompleted) /\ faults = 0) =>
        /\ Len(ProgressEvents) > 0
        /\ ProgressEvents[Len(ProgressEvents)].current = TotalFiles

\* C10: when a stream batch has ended, it has written as many progress events
\* as it has attempted tasks.
C10_EventPerTask ==
    StreamCompleted =>
        Len(ProgressEvents) =
            Cardinality({i \in PageIdx : tresult[StreamRun][i] # "none"})

\* The regeneration request has started streaming and its handler has returned
\* or thrown
StreamedRequestOver ==
    /\ res # <<>> /\ res[1].type = "head"
    /\ spc \in {"done", "raised"} \/ fpc \in {"done", "raised"}

\* C11: a regeneration request that started streaming (writeHead) and whose
\* handler is over has written exactly one final message, with success: true,
\* as the last thing written, and the response is ended; at no moment is there
\* more than one final message or anything written after the end.
C11_OneFinalThenClosed ==
    /\ Len(FinalEvents) <= 1
    /\ (resEnded /\ res[1].type = "head") => res[Len(res)].type = "final"
    /\ StreamedRequestOver =>
          /\ Len(FinalEvents) = 1
          /\ res[Len(res)].type = "final"
          /\ res[Len(res)].success
          /\ resEnded

\* C12: once the client has closed the connection, nothing more is written to
\* the response.
C12_NoWriteAfterClientClose ==
    clientClosedAt # -1 => Len(res) = clientClosedAt

\* C13: when a call of generateThumbnail has returned or thrown, the browser
\* it launched is not live any more (earlier versions of the function).
C13_NoBrowserOutlivesCall ==
    \A c \in Calls :
        vphase[c] \in {"returned", "thrown"} => vbrowser[c] # "live"

\* C14: the error a task surfaces tells a timeout from every other cause by
\* its type: the error of a task that failed is of the timeout class exactly
\* when the task exceeded its navigation deadline.
C14_TimeoutIsTyped ==
    \A r \in AllRuns : \A i \in Idx :
        Failed(r, i) =>
            (Thrown(tresult[r][i]).class = "TimeoutError" <=> tresult[r][i] = "timeout")

\* C15: at every moment a file at a page's PNG path is a complete artifact:
\* the one that was there before, or a complete 250x250 thumbnail.
C15_NeverPartial ==
    \A k \in DOMAIN png : png[k] \in {"absent", "old", "thumb"}

\* C16: a GET of a PNG path never returns bytes other than those of the file
\* on disk at that moment: what was cached before the file was written again
\* or removed is not served any more.
C16_NeverStale ==
    lastReply.status = 200 => lastReply.bytes = lastReply.onDisk

\* C17: once two overlapping background runs over one folder have ended, no
\* operation having failed, the file at every page's PNG path is one complete
\* artifact: the one that was there before, or a thumbnail written by one run.
C17_OverlapLeavesWholeFiles ==
    ( /\ mode = "background"
      /\ requests = BgRuns
      /\ \A r \in BgRuns : bgpc[r] = "done"
      /\ faults = 0 )
    => \A i \in PageIdx : png[TaskKey(i)] \in {"old", "thumb"}

\* C18: no rejection leaves a detached background run unhandled (a run is
\* waiting, running, done, or has logged its folder error; a failed task is
\* recorded and the run goes on), and the folder response never waits for the
\* run: as long as it is not sent it can be sent, whatever the run is doing.
C18_DetachedAndCaught ==
    \A r \in BgRuns :
        /\ bgpc[r] \in {"idle", "readdir", "running", "done", "folderError"}
        /\ (\E i \in Idx : Failed(r, i)) => bgpc[r] \in {"running", "done"}
        /\ (bgpc[r] # "idle" /\ r \notin folderReplied) => ENABLED FolderReply(r)

\* C18 witness: the folder response was sent while the run it started was
\* still running, and the run later ended with a failed task.
C18_Witness ==
    \E r \in BgRuns :
        /\ r \in folderReplied
        /\ bgpc[r] = "done"
        /\ \E i \in Idx : Failed(r, i)

\* C19: isValidPath rejects every non-empty path that contains "..", starts
\* with "/", contains a colon, a backslash or a NUL, or contains a character
\* outside the allow-listed class; it accepts the empty path and
\* "Archive/Sub Folder", and rejects "../../etc".
C19_IsValidPath ==
    handler = "isValidPath" =>
        /\ ( /\ reqPath # <<>>
             /\ \/ \E i \in 1..(Len(reqPath) - 1) :
                       reqPath[i] = 46 /\ reqPath[i + 1] = 46
                \/ reqPath[1] = 47
                \/ \E i \in 1..Len(reqPath) : reqPath[i] \in {58, 92, 0}
                \/ \E i \in 1..Len(reqPath) : ~AllowedChar(reqPath[i]) )
           => valid = "rejected"
        /\ reqPath = <<>> => valid = "accepted"
        /\ reqPath = ArchiveSubFolder => valid = "accepted"
        /\ reqPath = DotDotEtc => valid = "rejected"

\* C19 witness: a path was rejected whose only defect is a character outside
\* the allow-listed class.
C19_Witness ==
    /\ handler = "isValidPath"
    /\ valid = "rejected"
    /\ reqPath = <<97, 124>>

\* C20: every path a handler reads, creates or deletes lies inside the
\* archive root, whatever the URL path and the name of the request.
C20_StaysInsideRoot ==
    \A i \in 1..Len(fsCalls) :
        fsCalls[i].op \in {"mkdirSync", "unlink", "rm", "readFileSync"}
            => Inside(fsCalls[i].path)

\* C21: only a file whose stem is exactly three digits naming a number from
\* 100 to 999 is listed as a page or given a generation task; abc.html,
\* 101_05.html, 0100.html, 099.html and 1000.html are not.
C21_ExactStemsOnly ==
    \A i \in Idx :
        ( \/ IsPage(i) /\ folderReplied # {}
          \/ \E r \in AllRuns : tphase[r][i] \in InProgressPhases )
            => LET stem == ListKeyAt(i)
               IN /\ Len(stem) = 3
                  /\ \A j \in 1..3 : IsDigit(stem[j])
                  /\ stem[1] # "0"

\* C22: a free slot is never left unused: while a batch runs with fewer
\* tasks under way than its ceiling and a page of the batch is not yet
\* started, that page is not held back by the tasks still under way (in the
\* background run every slot is taken; in the fast pool a worker is on its
\* way to the next index).
C22_PoolKeepsSlotsBusy ==
    /\ \A r \in BgRuns :
           ( /\ bgpc[r] = "running"
             /\ \E i \in PageIdx : tphase[r][i] = "idle" )
           => Cardinality({i \in Idx : tphase[r][i] \in InProgressPhases \cup {"access"}})
                  >= MAX_CONCURRENT
    /\ ( /\ fpc = "workers"
         /\ FastInProgress < MAX_CONCURRENT_PAGES
         /\ \E j \in RegenWorkSet : j > currentIndex )
       => nNew > 0

\* C23: every batch run comes to its end having attempted every task of its
\* work set, whether its operations resolve or reject (a run whose readdir
\* rejects has no work set): nothing cancels it and no deadline ends it.
C23_BatchCompletes ==
    <>( /\ \A r \in BgRuns :
              \/ r \notin requests
              \/ bgpc[r] = "folderError"
              \/ /\ bgpc[r] = "done"
                 /\ \A i \in PageIdx : tresult[r][i] # "none"
        /\ \/ mode # "stream"
           \/ spc = "raised"
           \/ /\ spc = "done"
              /\ \A i \in PageIdx : tresult[StreamRun][i] # "none"
        /\ \/ mode # "fast"
           \/ fpc = "raised" /\ res = <<>>
           \/ /\ fpc = "done"
              /\ currentIndex = TotalFiles
              /\ completed = TotalFiles )

\* C24: in the fast pool every index is taken exactly once: the indices
\* under way are distinct and were all taken, every index taken is either
\* under way or completed once (completed + under way = currentIndex), and
\* when the workers have finished, completed = total.
C24_EachIndexOnce ==
    mode = "fast" =>
        /\ rendering \cap wopen = {}
        /\ rendering \cap wdata = {}
        /\ wopen \cap wdata = {}
        /\ \A i \in rendering \cup wopen \cup wdata : i <= currentIndex
        /\ completed + FastInProgress = currentIndex
        /\ currentIndex <= TotalFiles
        /\ fpc = "done" => completed = TotalFiles /\ FastInProgress = 0

\* C24 witness: the pool has finished a folder with more files than workers,
\* so that a worker has taken a second index.
C24_Witness ==
    /\ mode = "fast"
    /\ fpc = "done"
    /\ TotalFiles > MAX_CONCURRENT_PAGES
    /\ Cardinality(PageIdx) > MAX_CONCURRENT_PAGES

\* C25: within one batch run no two tasks write to one PNG path at a time:
\* two different files of the folder never have writeFile under way on the
\* same target.
C25_NoSharedTarget ==
    /\ \A r \in AllRuns : \A i, j \in PageIdx :
           ( /\ i # j
             /\ tphase[r][i] \in {"write", "writing"}
             /\ tphase[r][j] \in {"write", "writing"} )
           => TaskKey(i) # TaskKey(j)
    /\ \A i, j \in wopen \cup wdata : i # j => TaskKey(i) # TaskKey(j)

\* C26: the listing and the generator name the same PNG for every page: the
\* path whose existence gives hasThumb is the path the generator tests and
\* writes, so whenever a folder view is answered, hasThumb of a page is true
\* exactly when the generator would skip that page.
C26_ListingAgreesWithGenerator ==
    folderReplied # {} =>
        \A i \in PageIdx :
            /\ ListKeyAt(i) = TaskKey(i)
            /\ HasThumb(i) <=> ~NeedsGeneration(i)

\* C27: a failed generation leaves the target as it was: when a task of the
\* only background run over a folder has failed (it had found no PNG at its
\* target, and no other page of the folder shares that target), there is no
\* file at the target, so that a later run attempts the page again.
C27_FailureLeavesNoFile ==
    ( /\ mode = "background"
      /\ requests = {"reqA"} )
    => \A i \in PageIdx :
           ( /\ Failed("reqA", i)
             /\ \A j \in PageIdx : j # i => TaskKey(j) # TaskKey(i) )
           => ~PngExists(TaskKey(i))

\* C28: in a page view the page numbers are in ascending order, prevPage is
\* the greatest page number of the folder below the current page and
\* nextPage the least one above it, null (0) when there is none.
C28_StrictNavigation ==
    viewReply.status = 200 =>
        LET nums == {viewReply.pageNumbers[i] : i \in 1..Len(viewReply.pageNumbers)}
            below == {n \in nums : n < viewPage}
            above == {n \in nums : n > viewPage}
        IN /\ \A i \in 1..(Len(viewReply.pageNumbers) - 1) :
                  viewReply.pageNumbers[i] <= viewReply.pageNumbers[i + 1]
           /\ viewReply.prevPage =
                  IF below = {} THEN 0 ELSE CHOOSE n \in below : \A m \in below : m <= n
           /\ viewReply.nextPage =
                  IF above = {} THEN 0 ELSE CHOOSE n \in above : \A m \in above : n <= m

C30_YearBucket ==
    yrYear # -1 =>
        LET n == Len(yrFolder)
            run == IF \E k \in 0..n : \A j \in (n - k + 1)..n : IsDigit(yrFolder[j])
                   THEN CHOOSE k \in 0..n :
                            /\ \A j \in (n - k + 1)..n : IsDigit(yrFolder[j])
                            /\ k = n \/ ~IsDigit(yrFolder[n - k])
                   ELSE 0
            val(k) == DecValue(SubSeq(yrFolder, n - k + 1, n), 0)
        IN /\ run = 4 => yrYear = val(4)
           /\ run = 2 => yrYear = (IF val(2) > 25 THEN 1900 + val(2) ELSE 2000 + val(2))
           /\ run = 0 => yrYear = 0

\* C30 witness: a name ending in a four-digit number whose last two digits
\* alone would give another century, and its bucket.
C30_Witness ==
    /\ yrFolder = <<"1", "9", "2", "0">>
    /\ yrYear = 1920

====
